---- MODULE Spec2Model ----
(***************************************************************************)
(* The password-reset wizard of src/pages/auth/ForgotPassword.jsx.         *)
(*                                                                         *)
(* Strings the code inspects character by character (the e-mail address,   *)
(* the OTP, the passwords) are sequences of one-character strings; strings *)
(* the code only stores and shows (message) are TLA+ strings.              *)
(*                                                                         *)
(* One render is taken to follow every state update before the next user   *)
(* event: what the JSX reads (step, isLoading) is the current state.       *)
(***************************************************************************)
EXTENDS Naturals, Sequences, FiniteSets, TLC

VARIABLES
    step,        \* useState(1): 1 email, 2 otp, 3 reset password
    message,     \* useState('')
    success,     \* useState(false)
    isLoading,   \* useState(false)
    email,       \* useState('')
    calls,       \* axiosInstance.post promises not yet settled, oldest first
    navigated,   \* the paths handed to navigate(), in order
    last,        \* history: the event handled last, with its input
    verified,    \* history: the email of the latest verify-otp answered {success: true}
    \* ClientForm
    props,       \* {mode, initialData, refreshClientList} of the mounted form
    title,       \* useState("")
    website,     \* useState("")
    content,     \* useState("")
    imageFile,   \* useState(null)
    imagePreview, \* useState(null)
    errors,      \* useState({}): field -> message, "" where there is none
    touched,     \* useState({}): field -> whether it is set
    isDrawerOpen, \* the parent's state behind setIsDrawerOpen
    clientCalls, \* create and update requests not yet settled, oldest first
    refreshed,   \* how often refreshClientList was called
    edits,       \* how many change, blur and image events were handled
    clast        \* history: the ClientForm event handled last

wizardVars == <<step, message, success, isLoading, email, calls, navigated, last, verified>>

clientVars == <<props, title, website, content, imageFile, imagePreview, errors,
                touched, isDrawerOpen, clientCalls, refreshed, edits, clast>>

vars == <<wizardVars, clientVars>>

-----------------------------------------------------------------------------
(* Bounds of the inputs *)

MaxEmailLen == 3
MaxPwLen == 7

(* numInputs={6}: the OTP widget has six one-character boxes *)
numInputs == 6
(* yup.string().length(6) of otpSchema *)
OtpLength == 6
(* yup.string().min(6) of passwordSchema *)
MinPasswordLength == 6

(* The characters the user types. OTPInput is rendered without inputType,  *)
(* so its boxes take any character, a digit or not.                        *)
EmailChars == {"a", "@", "."}
OtpChars == {"1", "a"}
PwChars == {"x"}

(* The character classes of the e-mail pattern, over the characters drawn here *)
AlNum == {"a"}
LocalPartChars == AlNum \cup {".", "_", "+", "-"}

SeqsUpTo(S, n) == UNION {[1..k -> S] : k \in 0..n}

EmailInputs == SeqsUpTo(EmailChars, MaxEmailLen)
OtpInputs == SeqsUpTo(OtpChars, numInputs)
PasswordInputs == SeqsUpTo(PwChars, MaxPwLen)

(* What the server may answer: {success, message}, or no answer at all *)
ServerMessages == {"OK", "Invalid OTP"}
Responses ==
    [kind : {"resolved"}, success : BOOLEAN, message : ServerMessages]
        \cup {[kind |-> "rejected"]}

-----------------------------------------------------------------------------
(* yup *)

(* string().required(): the value is not the empty string *)
required(v) == Len(v) > 0

(* string().email(): the pattern                                           *)
(*   local+ @ label ( . label )*                                            *)
(* where a label starts and ends with a letter or digit and has letters,   *)
(* digits and hyphens between; the empty string is excluded from the test  *)
(* (excludeEmptyString), which leaves it to required().                    *)
IsEmailAddress(v) ==
    \E k \in 1..Len(v) :
        /\ v[k] = "@"
        /\ k > 1
        /\ \A i \in 1..(k - 1) : v[i] \in LocalPartChars
        /\ k < Len(v)
        /\ \A i \in (k + 1)..Len(v) : v[i] \in AlNum \cup {"-", "."}
        /\ v[k + 1] \in AlNum
        /\ v[Len(v)] \in AlNum
        /\ \A i \in (k + 1)..Len(v) :
               v[i] = "." => (v[i - 1] \in AlNum /\ v[i + 1] \in AlNum)

isEmail(v) == Len(v) = 0 \/ IsEmailAddress(v)

(* emailSchema without .required() *)
emailSchema_notRequired(data) == isEmail(data.email)

emailSchema(data) == isEmail(data.email) /\ required(data.email)

otpSchema(data) == Len(data.otp) = OtpLength /\ required(data.otp)

(* passwordSchema without .oneOf([yup.ref('newPassword'), null]) *)
passwordSchema_noOneOf(data) ==
    /\ Len(data.newPassword) >= MinPasswordLength
    /\ required(data.newPassword)
    /\ required(data.confirmNewPassword)

passwordSchema(data) ==
    /\ Len(data.newPassword) >= MinPasswordLength
    /\ required(data.newPassword)
    /\ data.confirmNewPassword \in {data.newPassword}
    /\ required(data.confirmNewPassword)

(* yupResolver(step === 1 ? emailSchema : step === 2 ? otpSchema : passwordSchema) *)
resolver(s, data) ==
    IF s = 1 THEN emailSchema(data)
    ELSE IF s = 2 THEN otpSchema(data)
    ELSE passwordSchema(data)

-----------------------------------------------------------------------------
(* ClientForm: its inputs and clientSchema *)

(* Bounds of the ClientForm behaviours *)
MaxEdits == 3
MaxClientCalls == 2

(* .max(100) of title, .max(255) of website, .min(10) and .max(1000) of    *)
(* content, 2 * 1024 * 1024 of image                                       *)
MaxTitleLength == 100
MaxWebsiteLength == 255
MinContentLength == 10
MaxContentLength == 1000
MaxImageSize == 2097152

(* null, where the code holds an object or null *)
Null == [null |-> TRUE]
(* null, where the code holds a string or null *)
NoPreview == "null"

Fields == {"title", "website", "content", "image"}

Rep(c, n) == [i \in 1..n |-> c]

(* A URL of n characters: the host a.aaa... after the two slashes *)
UrlOfLength(n) == <<"/", "/", "a", ".">> \o Rep("a", n - 4)

TitleInputs == {<<>>, Rep("a", MaxTitleLength), Rep("a", MaxTitleLength + 1)}
WebsiteInputs ==
    {<<>>, <<"a", ".", "a">>, UrlOfLength(MaxWebsiteLength),
     UrlOfLength(MaxWebsiteLength + 1)}
ContentInputs ==
    {<<>>, Rep("a", MinContentLength - 1), Rep("a", MinContentLength),
     Rep("a", MaxContentLength + 1)}
FileInputs ==
    {[type |-> "image/png", size |-> MaxImageSize],
     [type |-> "image/png", size |-> MaxImageSize + 1],
     [type |-> "application/pdf", size |-> 1]}

(* The client record the parent hands to the form in mode "edit" *)
Client ==
    [id |-> 7, name |-> <<"a">>, website |-> UrlOfLength(5),
     description |-> Rep("a", MinContentLength), logo |-> "logo.png"]

(* The props of a mounted form: a form that adds and has no               *)
(* refreshClientList, a form that edits Client, and a form in mode "edit"  *)
(* that was handed no client                                               *)
PropsInputs ==
    {[mode |-> "add", initialData |-> Null, refreshClientList |-> FALSE],
     [mode |-> "edit", initialData |-> Client, refreshClientList |-> TRUE],
     [mode |-> "edit", initialData |-> Null, refreshClientList |-> TRUE]}

(* string().url(), over strings without user info, port, path, query or    *)
(* fragment: two slashes, then labels separated by dots, each starting and *)
(* ending with a letter or digit, with an optional dot at the end          *)
UrlAlNum == {"a"}
IsUrl(v) ==
    LET e == IF Len(v) > 0 /\ v[Len(v)] = "." THEN Len(v) - 1 ELSE Len(v) IN
    /\ e >= 5
    /\ v[1] = "/"
    /\ v[2] = "/"
    /\ \A i \in 3..e : v[i] \in UrlAlNum \cup {"-", ".", "_", "~"}
    /\ v[3] \in UrlAlNum
    /\ v[e] \in UrlAlNum
    /\ \E i \in 4..(e - 1) :
           v[i] = "." /\ v[i - 1] \in UrlAlNum /\ v[i + 1] \in UrlAlNum

When(failed, msg) == IF failed THEN <<msg>> ELSE <<>>

(* The messages of the tests a value fails, in the order of the tests *)
titleErrors(v) ==
    When(Len(v) = 0, "Client name is required")
        \o When(Len(v) > MaxTitleLength, "Client name cannot exceed 100 characters")

websiteErrors(v) ==
    When(Len(v) = 0, "Website URL is required")
        \o When(Len(v) > 0 /\ ~IsUrl(v),
                "Please enter a valid URL (e.g., https://example.com)")
        \o When(Len(v) > MaxWebsiteLength, "Website URL cannot exceed 255 characters")

contentErrors(v) ==
    When(Len(v) = 0, "Description is required")
        \o When(Len(v) < MinContentLength, "Description must be at least 10 characters")
        \o When(Len(v) > MaxContentLength, "Description cannot exceed 1000 characters")

imageErrors(v) ==
    IF v = Null THEN <<>>
    ELSE When(v.type \notin {"image/jpeg", "image/png", "image/gif", "image/webp"},
              "Only JPG, PNG, GIF and WEBP images are allowed")
             \o When(v.size > MaxImageSize, "Image size cannot exceed 2MB")

(* yup.reach(clientSchema, field) applied to a value *)
fieldErrors(field, v) ==
    IF field = "title" THEN titleErrors(v)
    ELSE IF field = "website" THEN websiteErrors(v)
    ELSE IF field = "content" THEN contentErrors(v)
    ELSE imageErrors(v)

(* The form's values as validateForm and handleSubmit read them *)
FormValues ==
    [title |-> title, website |-> website, content |-> content, image |-> imageFile]

(* clientSchema without the content field *)
clientSchema_noContent(values) ==
    \A f \in Fields \ {"content"} : fieldErrors(f, values[f]) = <<>>

(* clientSchema.validate(values, {abortEarly: false}) passes *)
clientSchema(values) == \A f \in Fields : fieldErrors(f, values[f]) = <<>>

NoErrors == [f \in Fields |-> ""]
NoneTouched == [f \in Fields |-> FALSE]

ClientInit ==
    /\ props = Null
    /\ title = <<>>
    /\ website = <<>>
    /\ content = <<>>
    /\ imageFile = Null
    /\ imagePreview = NoPreview
    /\ errors = NoErrors
    /\ touched = NoneTouched
    /\ isDrawerOpen = TRUE
    /\ clientCalls = <<>>
    /\ refreshed = 0
    /\ edits = 0
    /\ clast = [op |-> "none"]

-----------------------------------------------------------------------------
(* The wizard *)

(* The component with useState(true) for isLoading *)
Init_loading ==
    /\ step = 1
    /\ message = ""
    /\ success = FALSE
    /\ isLoading = TRUE
    /\ email = <<>>
    /\ calls = <<>>
    /\ navigated = <<>>
    /\ last = [op |-> "mount"]
    /\ verified = <<>>
    /\ ClientInit

Init ==
    /\ step = 1
    /\ message = ""
    /\ success = FALSE
    /\ isLoading = FALSE
    /\ email = <<>>
    /\ calls = <<>>
    /\ navigated = <<>>
    /\ last = [op |-> "mount"]
    /\ verified = <<>>
    /\ ClientInit

(* The component is on screen until it navigates away *)
Mounted == navigated = <<>>

(* The submit buttons without disabled={isLoading} *)
SubmitDisabled_never == FALSE

(* disabled={isLoading} of the three submit buttons *)
SubmitDisabled == isLoading

Post(url, body) == calls' = Append(calls, [url |-> url, body |-> body])

Settled(i) == calls' = SubSeq(calls, 1, i - 1) \o SubSeq(calls, i + 1, Len(calls))

(* The handlers up to their await *)
handleEmailSubmit(data) ==
    /\ isLoading' = TRUE
    /\ message' = ""
    /\ Post("/auth/forgot-password", [email |-> data.email])
    /\ UNCHANGED <<step, success, email, navigated>>

(* handleOtpSubmit without setMessage('') *)
handleOtpSubmit_keepsMessage(data) ==
    /\ isLoading' = TRUE
    /\ Post("/auth/verify-otp", [email |-> email, otp |-> data.otp])
    /\ UNCHANGED <<step, message, success, email, navigated>>

handleOtpSubmit(data) ==
    /\ isLoading' = TRUE
    /\ message' = ""
    /\ Post("/auth/verify-otp", [email |-> email, otp |-> data.otp])
    /\ UNCHANGED <<step, success, email, navigated>>

handlePasswordReset(data) ==
    /\ isLoading' = TRUE
    /\ message' = ""
    /\ Post("/auth/reset-password",
            [email |-> email,
             newPassword |-> data.newPassword,
             confirmNewPassword |-> data.confirmNewPassword])
    /\ UNCHANGED <<step, success, email, navigated>>

(* handleSubmit(onValid) of react-hook-form: validation failed, onValid is not called *)
Invalid == UNCHANGED <<step, message, success, isLoading, email, calls, navigated>>

(* The e-mail form with onSubmit={handleEmailSubmit}: no resolver in between *)
SubmitEmail_noValidation ==
    \E e \in EmailInputs :
        LET data == [email |-> e] IN
        /\ Mounted
        /\ step = 1
        /\ ~SubmitDisabled
        /\ handleEmailSubmit(data)
        /\ last' = [op |-> "submit", step |-> step, data |-> data]
        /\ UNCHANGED verified

SubmitEmail ==
    \E e \in EmailInputs :
        LET data == [email |-> e] IN
        /\ Mounted
        /\ step = 1
        /\ ~SubmitDisabled
        /\ IF resolver(step, data) THEN handleEmailSubmit(data) ELSE Invalid
        /\ last' = [op |-> "submit", step |-> step, data |-> data]
        /\ UNCHANGED verified

SubmitOtp ==
    \E o \in OtpInputs :
        LET data == [otp |-> o] IN
        /\ Mounted
        /\ step = 2
        /\ ~SubmitDisabled
        /\ IF resolver(step, data) THEN handleOtpSubmit(data) ELSE Invalid
        /\ last' = [op |-> "submit", step |-> step, data |-> data]
        /\ UNCHANGED verified

SubmitReset ==
    \E p \in PasswordInputs, q \in PasswordInputs :
        LET data == [newPassword |-> p, confirmNewPassword |-> q] IN
        /\ Mounted
        /\ step = 3
        /\ ~SubmitDisabled
        /\ IF resolver(step, data) THEN handlePasswordReset(data) ELSE Invalid
        /\ last' = [op |-> "submit", step |-> step, data |-> data]
        /\ UNCHANGED verified

(* A Back button that also forgets the address: setStep(1); setEmail('') *)
Back_clearsEmail ==
    /\ Mounted
    /\ step = 2
    /\ step' = 1
    /\ email' = <<>>
    /\ last' = [op |-> "back"]
    /\ UNCHANGED verified
    /\ UNCHANGED <<message, success, isLoading, calls, navigated>>

(* A Back button that also abandons the request: setStep(1); setIsLoading(false) *)
Back_stopsLoading ==
    /\ Mounted
    /\ step = 2
    /\ step' = 1
    /\ isLoading' = FALSE
    /\ last' = [op |-> "back"]
    /\ UNCHANGED verified
    /\ UNCHANGED <<message, success, email, calls, navigated>>

(* The Back button of the OTP step: onClick={() => setStep(1)} *)
Back ==
    /\ Mounted
    /\ step = 2
    /\ step' = 1
    /\ last' = [op |-> "back"]
    /\ UNCHANGED verified
    /\ UNCHANGED <<message, success, isLoading, email, calls, navigated>>

(* handleEmailSubmit without setEmail(data.email) *)
handleEmailSubmitResume_noSetEmail(body, r) ==
    /\ IF r.kind = "resolved"
       THEN /\ message' = r.message
            /\ success' = r.success
            /\ IF r.success THEN step' = 2 ELSE UNCHANGED step
       ELSE /\ message' = "Something went wrong. Please try again."
            /\ success' = FALSE
            /\ UNCHANGED step
    /\ isLoading' = FALSE
    /\ UNCHANGED <<email, navigated>>

(* The handlers from their await on: try, catch, finally *)
handleEmailSubmitResume(body, r) ==
    /\ IF r.kind = "resolved"
       THEN /\ message' = r.message
            /\ success' = r.success
            /\ IF r.success
               THEN email' = body.email /\ step' = 2
               ELSE UNCHANGED <<email, step>>
       ELSE /\ message' = "Something went wrong. Please try again."
            /\ success' = FALSE
            /\ UNCHANGED <<email, step>>
    /\ isLoading' = FALSE
    /\ UNCHANGED navigated

(* handleOtpSubmit with setStep(3) outside the if (response.data.success) *)
handleOtpSubmitResume_alwaysAdvance(body, r) ==
    /\ IF r.kind = "resolved"
       THEN /\ message' = r.message
            /\ success' = r.success
            /\ step' = 3
       ELSE /\ message' = "Error verifying OTP. Please try again."
            /\ success' = FALSE
            /\ UNCHANGED step
    /\ isLoading' = FALSE
    /\ UNCHANGED <<email, navigated>>

(* handleOtpSubmit with setIsLoading(false) at the end of try, not in finally *)
handleOtpSubmitResume_noFinally(body, r) ==
    /\ IF r.kind = "resolved"
       THEN /\ message' = r.message
            /\ success' = r.success
            /\ IF r.success THEN step' = 3 ELSE UNCHANGED step
            /\ isLoading' = FALSE
       ELSE /\ message' = "Error verifying OTP. Please try again."
            /\ success' = FALSE
            /\ UNCHANGED <<step, isLoading>>
    /\ UNCHANGED <<email, navigated>>

handleOtpSubmitResume(body, r) ==
    /\ IF r.kind = "resolved"
       THEN /\ message' = r.message
            /\ success' = r.success
            /\ IF r.success THEN step' = 3 ELSE UNCHANGED step
       ELSE /\ message' = "Error verifying OTP. Please try again."
            /\ success' = FALSE
            /\ UNCHANGED step
    /\ isLoading' = FALSE
    /\ UNCHANGED <<email, navigated>>

(* handlePasswordReset with navigate('/login') in the finally block *)
handlePasswordResetResume_navigateAlways(body, r) ==
    /\ IF r.kind = "resolved"
       THEN /\ message' = r.message
            /\ success' = r.success
            /\ IF r.success THEN step' = 1 ELSE UNCHANGED step
       ELSE /\ message' = "Error resetting password. Please try again."
            /\ success' = FALSE
            /\ UNCHANGED step
    /\ isLoading' = FALSE
    /\ navigated' = Append(navigated, "/login")
    /\ UNCHANGED email

(* handlePasswordReset without setSuccess(false) in catch *)
handlePasswordResetResume_noSetSuccess(body, r) ==
    /\ IF r.kind = "resolved"
       THEN /\ message' = r.message
            /\ success' = r.success
            /\ IF r.success
               THEN step' = 1 /\ navigated' = Append(navigated, "/login")
               ELSE UNCHANGED <<step, navigated>>
       ELSE /\ message' = "Error resetting password. Please try again."
            /\ UNCHANGED <<success, step, navigated>>
    /\ isLoading' = FALSE
    /\ UNCHANGED email

handlePasswordResetResume(body, r) ==
    /\ IF r.kind = "resolved"
       THEN /\ message' = r.message
            /\ success' = r.success
            /\ IF r.success
               THEN step' = 1 /\ navigated' = Append(navigated, "/login")
               ELSE UNCHANGED <<step, navigated>>
       ELSE /\ message' = "Error resetting password. Please try again."
            /\ success' = FALSE
            /\ UNCHANGED <<step, navigated>>
    /\ isLoading' = FALSE
    /\ UNCHANGED email

Answer(i, r) ==
    /\ Settled(i)
    /\ last' = [op |-> "response", call |-> calls[i], resp |-> r, emailBefore |-> email]
    /\ verified' = IF /\ calls[i].url = "/auth/verify-otp"
                      /\ r.kind = "resolved"
                      /\ r.success
                   THEN calls[i].body.email
                   ELSE verified

EmailResponse ==
    \E i \in 1..Len(calls), r \in Responses :
        /\ calls[i].url = "/auth/forgot-password"
        /\ handleEmailSubmitResume(calls[i].body, r)
        /\ Answer(i, r)

OtpResponse ==
    \E i \in 1..Len(calls), r \in Responses :
        /\ calls[i].url = "/auth/verify-otp"
        /\ handleOtpSubmitResume(calls[i].body, r)
        /\ Answer(i, r)

ResetResponse ==
    \E i \in 1..Len(calls), r \in Responses :
        /\ calls[i].url = "/auth/reset-password"
        /\ handlePasswordResetResume(calls[i].body, r)
        /\ Answer(i, r)

Next ==
    \/ SubmitEmail /\ UNCHANGED clientVars
    \/ SubmitOtp /\ UNCHANGED clientVars
    \/ SubmitReset /\ UNCHANGED clientVars
    \/ Back /\ UNCHANGED clientVars
    \/ EmailResponse /\ UNCHANGED clientVars
    \/ OtpResponse /\ UNCHANGED clientVars
    \/ ResetResponse /\ UNCHANGED clientVars

Spec == Init /\ [][Next]_vars

(* Every request is settled in the end: axios resolves or rejects each promise *)
FairSpec ==
    /\ Spec
    /\ WF_wizardVars(EmailResponse)
    /\ WF_wizardVars(OtpResponse)
    /\ WF_wizardVars(ResetResponse)

-----------------------------------------------------------------------------
(* ClientForm *)

(* The form is on screen: mounted, in the open drawer *)
Interactive == props # Null /\ isDrawerOpen

resetForm ==
    /\ title' = <<>>
    /\ website' = <<>>
    /\ content' = <<>>
    /\ imageFile' = Null
    /\ imagePreview' = NoPreview
    /\ errors' = NoErrors
    /\ touched' = NoneTouched

(* errors after validateField(field, v): abortEarly, the first failed test *)
validateField(errs, field, v) ==
    [errs EXCEPT ![field] =
        IF fieldErrors(field, v) = <<>> THEN "" ELSE Head(fieldErrors(field, v))]

(* errors after a failed validateForm: per path the last of validationError.inner *)
newErrors(values) ==
    [f \in Fields |->
        IF fieldErrors(f, values[f]) = <<>>
        THEN ""
        ELSE fieldErrors(f, values[f])[Len(fieldErrors(f, values[f]))]]

(* Mounting with props, and the effect on [mode, initialData] *)
Mount ==
    \E p \in PropsInputs :
        /\ props = Null
        /\ props' = p
        /\ IF p.mode = "edit" /\ p.initialData # Null
           THEN /\ title' = p.initialData.name
                /\ website' = p.initialData.website
                /\ content' = p.initialData.description
                /\ imagePreview' = p.initialData.logo
                /\ UNCHANGED <<imageFile, errors, touched>>
           ELSE IF p.mode = "add"
           THEN resetForm
           ELSE UNCHANGED <<title, website, content, imageFile, imagePreview,
                            errors, touched>>
        /\ clast' = [op |-> "mount"]
        /\ UNCHANGED <<isDrawerOpen, clientCalls, refreshed, edits>>

(* onChange of a text input: the setter, then validateField(field) if the  *)
(* field is touched; validateField reads the value of the render that the  *)
(* handler belongs to, which is the value before this change               *)
Changed(field, old, v) ==
    /\ Interactive
    /\ edits < MaxEdits
    /\ v # old
    /\ errors' = IF touched[field] THEN validateField(errors, field, old) ELSE errors
    /\ edits' = edits + 1
    /\ clast' = [op |-> "change", field |-> field, value |-> v]
    /\ UNCHANGED <<props, imageFile, imagePreview, touched, isDrawerOpen,
                   clientCalls, refreshed>>

ChangeTitle ==
    \E v \in TitleInputs :
        /\ Changed("title", title, v)
        /\ title' = v
        /\ UNCHANGED <<website, content>>

ChangeWebsite ==
    \E v \in WebsiteInputs :
        /\ Changed("website", website, v)
        /\ website' = v
        /\ UNCHANGED <<title, content>>

ChangeContent ==
    \E v \in ContentInputs :
        /\ Changed("content", content, v)
        /\ content' = v
        /\ UNCHANGED <<title, website>>

(* onBlur={() => handleBlur(field)} of the three text inputs *)
handleBlur ==
    \E field \in {"title", "website", "content"} :
        /\ Interactive
        /\ edits < MaxEdits
        /\ touched' = [touched EXCEPT ![field] = TRUE]
        /\ errors' = validateField(errors, field, FormValues[field])
        /\ edits' = edits + 1
        /\ clast' = [op |-> "blur", field |-> field]
        /\ UNCHANGED <<props, title, website, content, imageFile, imagePreview,
                       isDrawerOpen, clientCalls, refreshed>>

handleRemoveImage ==
    /\ imageFile' = Null
    /\ imagePreview' = NoPreview
    /\ errors' = [errors EXCEPT !["image"] = ""]
    /\ UNCHANGED touched

(* onChange of the file input, with the chosen file or with none *)
handleImageChange ==
    \E file \in FileInputs \cup {Null} :
        /\ Interactive
        /\ edits < MaxEdits
        /\ IF file # Null
           THEN /\ imageFile' = file
                /\ imagePreview' = "blob:"
                /\ touched' = [touched EXCEPT !["image"] = TRUE]
                /\ errors' = validateField(errors, "image", file)
           ELSE handleRemoveImage
        /\ edits' = edits + 1
        /\ clast' = [op |-> "image", file |-> file]
        /\ UNCHANGED <<props, title, website, content, isDrawerOpen, clientCalls,
                       refreshed>>

(* The Remove button over the preview *)
RemoveImage ==
    /\ Interactive
    /\ edits < MaxEdits
    /\ imagePreview # NoPreview
    /\ handleRemoveImage
    /\ edits' = edits + 1
    /\ clast' = [op |-> "remove"]
    /\ UNCHANGED <<props, title, website, content, isDrawerOpen, clientCalls,
                   refreshed>>

(* FormData without formData.append("logo", imageFile) *)
formData_noLogo == [name |-> title, website |-> website, description |-> content]

(* new FormData() with its appends *)
formData ==
    IF imageFile # Null
    THEN [name |-> title, website |-> website, description |-> content,
          logo |-> imageFile]
    ELSE [name |-> title, website |-> website, description |-> content]

(* What follows the request in the try block *)
afterSave ==
    /\ refreshed' = IF props.refreshClientList THEN refreshed + 1 ELSE refreshed
    /\ resetForm
    /\ isDrawerOpen' = FALSE

(* handleSubmit up to the await of its request, or to its end without one *)
handleSubmit ==
    /\ Interactive
    /\ IF ~clientSchema(FormValues)
       THEN /\ touched' = [f \in Fields |-> TRUE]
            /\ errors' = newErrors(FormValues)
            /\ clast' = [op |-> "submit", values |-> FormValues, sent |-> FALSE,
                         toast |-> "Please fix the errors in the form."]
            /\ UNCHANGED <<title, website, content, imageFile, imagePreview,
                           isDrawerOpen, clientCalls, refreshed>>
       ELSE IF props.mode = "add"
       THEN /\ Len(clientCalls) < MaxClientCalls
            /\ touched' = [f \in Fields |-> TRUE]
            /\ errors' = NoErrors
            /\ clientCalls' = Append(clientCalls,
                   [method |-> "POST", url |-> "/client/create-client",
                    formData |-> formData])
            /\ clast' = [op |-> "submit", values |-> FormValues, sent |-> TRUE,
                         toast |-> ""]
            /\ UNCHANGED <<title, website, content, imageFile, imagePreview,
                           isDrawerOpen, refreshed>>
       ELSE IF props.mode = "edit" /\ props.initialData # Null
       THEN /\ Len(clientCalls) < MaxClientCalls
            /\ touched' = [f \in Fields |-> TRUE]
            /\ errors' = NoErrors
            /\ clientCalls' = Append(clientCalls,
                   [method |-> "PUT", url |-> "/client/update-client/",
                    id |-> props.initialData.id, formData |-> formData])
            /\ clast' = [op |-> "submit", values |-> FormValues, sent |-> TRUE,
                         toast |-> ""]
            /\ UNCHANGED <<title, website, content, imageFile, imagePreview,
                           isDrawerOpen, refreshed>>
       ELSE /\ afterSave
            /\ clast' = [op |-> "submit", values |-> FormValues, sent |-> FALSE,
                         toast |-> ""]
            /\ UNCHANGED clientCalls
    /\ UNCHANGED <<props, edits>>

(* handleSubmit with resetForm() after the try block instead of inside it *)
handleSubmitResume_resetsOnFailure(ok) ==
    IF ok
    THEN afterSave
    ELSE resetForm /\ UNCHANGED <<isDrawerOpen, refreshed>>

(* handleSubmit from the await of its request on *)
handleSubmitResume(ok) ==
    IF ok
    THEN afterSave
    ELSE UNCHANGED <<title, website, content, imageFile, imagePreview, errors,
                     touched, isDrawerOpen, refreshed>>

ClientResponse ==
    \E i \in 1..Len(clientCalls), ok \in BOOLEAN :
        /\ handleSubmitResume(ok)
        /\ clientCalls' = SubSeq(clientCalls, 1, i - 1)
                              \o SubSeq(clientCalls, i + 1, Len(clientCalls))
        /\ clast' = [op |-> "response", call |-> clientCalls[i], ok |-> ok,
                     toast |-> IF ~ok THEN "Failed to save client. Please try again."
                               ELSE IF clientCalls[i].method = "POST"
                               THEN "Client created successfully!"
                               ELSE "Client updated successfully!"]
        /\ UNCHANGED <<props, edits>>

ClientNext ==
    \/ Mount /\ UNCHANGED wizardVars
    \/ ChangeTitle /\ UNCHANGED wizardVars
    \/ ChangeWebsite /\ UNCHANGED wizardVars
    \/ ChangeContent /\ UNCHANGED wizardVars
    \/ handleBlur /\ UNCHANGED wizardVars
    \/ handleImageChange /\ UNCHANGED wizardVars
    \/ RemoveImage /\ UNCHANGED wizardVars
    \/ handleSubmit /\ UNCHANGED wizardVars
    \/ ClientResponse /\ UNCHANGED wizardVars

ClientSpec == Init /\ [][ClientNext]_vars

-----------------------------------------------------------------------------
(* Reading a step of a behaviour *)

Digits == {"0", "1", "2", "3", "4", "5", "6", "7", "8", "9"}

ForgotPasswordUrl == "/auth/forgot-password"
VerifyOtpUrl == "/auth/verify-otp"
ResetPasswordUrl == "/auth/reset-password"

(* This step issues a request: a handler ran up to its await *)
Issued == Len(calls') > Len(calls)
(* This step settles a request: a handler ran from its await on *)
Answered == Len(calls') < Len(calls)
(* This step settles a request to url with {success: true} *)
AnsweredSuccess(url) ==
    /\ Answered
    /\ last'.call.url = url
    /\ last'.resp.kind = "resolved"
    /\ last'.resp.success
(* This step settles a request with {success: false} *)
AnsweredRejection ==
    /\ Answered
    /\ last'.resp.kind = "resolved"
    /\ ~last'.resp.success

WizardState == <<step, email, message, success, isLoading>>

-----------------------------------------------------------------------------
(* C1: every change of step is Email->Otp on a successful request-otp,     *)
(* Otp->Reset on a successful verify-otp, Otp->Email on Back or            *)
(* Reset->Email on a successful reset-password; Email->Reset never happens. *)
StepChangesAreLegal ==
    [][step' # step =>
        \/ step = 1 /\ step' = 2 /\ AnsweredSuccess(ForgotPasswordUrl)
        \/ step = 2 /\ step' = 3 /\ AnsweredSuccess(VerifyOtpUrl)
        \/ step = 2 /\ step' = 1 /\ last'.op = "back"
        \/ step = 3 /\ step' = 1 /\ AnsweredSuccess(ResetPasswordUrl)]_vars

(* C2: at most one request is in flight, a request in flight keeps loading *)
(* true, and while loading is true no step issues a request.               *)
OneRequestInFlight ==
    /\ [](Len(calls) <= 1 /\ (calls # <<>> => isLoading))
    /\ [][isLoading => ~Issued]_vars

(* C2 witness: Back moved the wizard to the Email step while verify-otp is *)
(* in flight.                                                              *)
BackDuringVerifyOtp ==
    /\ last.op = "back"
    /\ step = 1
    /\ isLoading
    /\ Len(calls) = 1
    /\ calls[1].url = VerifyOtpUrl

(* C3: a handler changes step only on {success: true}; on {success: false} *)
(* it leaves step and email alone and sets message to the server's message. *)
RejectionKeepsStep ==
    [][Answered =>
        /\ step' # step => last'.resp.kind = "resolved" /\ last'.resp.success
        /\ AnsweredRejection =>
              /\ step' = step
              /\ email' = email
              /\ message' = last'.resp.message]_vars

(* C3 witness: verify-otp answered {success: false, message: "Invalid OTP"} *)
InvalidOtpShown ==
    /\ last.op = "response"
    /\ last.call.url = VerifyOtpUrl
    /\ last.resp = [kind |-> "resolved", success |-> FALSE, message |-> "Invalid OTP"]
    /\ step = 2
    /\ message = "Invalid OTP"

(* C4: a request is issued only by a submit whose input passes the schema  *)
(* of the current step, and a submit whose input fails it changes nothing. *)
ValidationGatesRequests ==
    [][/\ Issued => last'.op = "submit" /\ resolver(step, last'.data)
       /\ (last'.op = "submit" /\ ~resolver(step, last'.data)) =>
              UNCHANGED <<WizardState, calls, navigated>>]_vars

(* C4 witness: a non-empty input that is no e-mail address was submitted   *)
(* and nothing was sent.                                                   *)
BadEmailBlocked ==
    /\ last.op = "submit"
    /\ last.step = 1
    /\ last.data.email # <<>>
    /\ ~IsEmailAddress(last.data.email)
    /\ step = 1
    /\ calls = <<>>
    /\ ~isLoading

(* C5: every verify-otp request carries an OTP of exactly 6 characters,    *)
(* all of them decimal digits.                                             *)
OtpRequestsCarrySixDigits ==
    \A i \in 1..Len(calls) :
        calls[i].url = VerifyOtpUrl =>
            /\ Len(calls[i].body.otp) = 6
            /\ \A j \in 1..Len(calls[i].body.otp) : calls[i].body.otp[j] \in Digits

(* C6: every reset-password request carries a newPassword of length >= 6   *)
(* and an equal confirmNewPassword, and a submit whose two passwords       *)
(* differ issues no request.                                               *)
ResetRequiresMatchingPasswords ==
    /\ [](\A i \in 1..Len(calls) :
             calls[i].url = ResetPasswordUrl =>
                 /\ Len(calls[i].body.newPassword) >= 6
                 /\ calls[i].body.confirmNewPassword = calls[i].body.newPassword)
    /\ [][(/\ last'.op = "submit"
           /\ step = 3
           /\ last'.data.confirmNewPassword # last'.data.newPassword) =>
              ~Issued /\ calls' = calls]_vars

(* C6 witness: two passwords, each long enough, that differ were submitted *)
(* and nothing was sent.                                                   *)
MismatchBlocked ==
    /\ last.op = "submit"
    /\ last.step = 3
    /\ Len(last.data.newPassword) >= 6
    /\ Len(last.data.confirmNewPassword) >= 6
    /\ last.data.confirmNewPassword # last.data.newPassword
    /\ step = 3
    /\ calls = <<>>

(* C7: a forgot-password request carries the submitted e-mail, and when it *)
(* returns {success: true} step becomes 2 and email the submitted e-mail.  *)
RequestOtpSuccessStoresEmail ==
    [][/\ (Issued /\ step = 1) =>
              calls'[Len(calls')] =
                  [url |-> ForgotPasswordUrl, body |-> [email |-> last'.data.email]]
       /\ AnsweredSuccess(ForgotPasswordUrl) =>
              step' = 2 /\ email' = last'.call.body.email]_vars

(* C7 witness: request-otp succeeded and stored a new address *)
EmailStored ==
    /\ last.op = "response"
    /\ last.call.url = ForgotPasswordUrl
    /\ last.resp.kind = "resolved"
    /\ last.resp.success
    /\ step = 2
    /\ email = last.call.body.email
    /\ email # last.emailBefore

(* C8: navigate('/login') is called once by the step that settles a        *)
(* reset-password request with {success: true}, which also sets step to 1, *)
(* and by no other step.                                                   *)
NavigateOnceOnResetSuccess ==
    [][IF AnsweredSuccess(ResetPasswordUrl)
       THEN step' = 1 /\ navigated' = Append(navigated, "/login")
       ELSE navigated' = navigated]_vars

(* C8 witness: the reset completed *)
ResetCompleted ==
    /\ last.op = "response"
    /\ last.call.url = ResetPasswordUrl
    /\ last.resp.kind = "resolved"
    /\ last.resp.success
    /\ step = 1
    /\ navigated = <<"/login">>

(* C9: an empty stored email implies step 1 *)
EmptyEmailOnlyInEmailStep == email = <<>> => step = 1

(* C9 witness: request-otp was refused, the stored email is still empty *)
RefusedWithEmptyEmail ==
    /\ last.op = "response"
    /\ last.call.url = ForgotPasswordUrl
    /\ ~(last.resp.kind = "resolved" /\ last.resp.success)
    /\ email = <<>>
    /\ step = 1

(* C10 as claimed: once the stored email is non-empty no step changes it *)
EmailImmutableOnceSet == [][email # <<>> => email' = email]_vars

(* C10 as amended: the stored email changes only in the step that settles  *)
(* a forgot-password request with {success: true}, and becomes the e-mail  *)
(* that request carried.                                                   *)
EmailChangesOnlyOnRequestOtpSuccess ==
    [][email' # email =>
        /\ AnsweredSuccess(ForgotPasswordUrl)
        /\ email' = last'.call.body.email]_vars

(* C10 witness: a stored address was replaced by another one *)
EmailReplaced ==
    /\ last.op = "response"
    /\ last.emailBefore # <<>>
    /\ email # last.emailBefore

-----------------------------------------------------------------------------
(* The message of each handler's catch block *)
RetryMessage(url) ==
    IF url = ForgotPasswordUrl THEN "Something went wrong. Please try again."
    ELSE IF url = VerifyOtpUrl THEN "Error verifying OTP. Please try again."
    ELSE "Error resetting password. Please try again."

(* This step settles a request with a thrown error *)
AnsweredError == Answered /\ last'.resp.kind = "rejected"

(* C11: when a request fails with a thrown error the handler sets message  *)
(* to its retry message and success to false, leaves step and email alone  *)
(* and issues no request; a request is issued only by a submit, one each.  *)
TransportErrorIsCaught ==
    [][/\ AnsweredError =>
              /\ message' = RetryMessage(last'.call.url)
              /\ success' = FALSE
              /\ step' = step
              /\ email' = email
       /\ Answered => Len(calls') = Len(calls) - 1
       /\ Issued => last'.op = "submit" /\ Len(calls') = Len(calls) + 1]_vars

(* C11 witness: verify-otp threw and its retry message is shown *)
VerifyOtpErrorShown ==
    /\ last.op = "response"
    /\ last.call.url = VerifyOtpUrl
    /\ last.resp.kind = "rejected"
    /\ message = "Error verifying OTP. Please try again."
    /\ ~success
    /\ step = 2
    /\ calls = <<>>

(* C12: loading always returns to false once the request is settled, and   *)
(* whenever loading is false on the mounted wizard the submit of the       *)
(* current step can be taken.                                              *)
LoadingEndsAndRetryIsPossible ==
    /\ isLoading ~> ~isLoading
    /\ []((~isLoading /\ Mounted) =>
             /\ step = 1 => ENABLED SubmitEmail
             /\ step = 2 => ENABLED SubmitOtp
             /\ step = 3 => ENABLED SubmitReset)

(* C12 witness: reset-password threw and the Reset step is idle again *)
IdleAfterResetError ==
    /\ last.op = "response"
    /\ last.call.url = ResetPasswordUrl
    /\ last.resp.kind = "rejected"
    /\ ~isLoading
    /\ step = 3
    /\ Mounted

(* C13: Back can be taken only in step 2; it sets step to 1, leaves email, *)
(* message, success and loading alone and leaves the requests in flight.   *)
BackOnlyChangesStep ==
    /\ [](ENABLED Back => step = 2)
    /\ [][last'.op = "back" =>
             /\ step = 2
             /\ step' = 1
             /\ UNCHANGED <<email, message, success, isLoading, calls>>]_vars

(* C13 witness: Back was taken with a request in flight, which still is *)
BackKeepsRequest ==
    /\ last.op = "back"
    /\ step = 1
    /\ calls # <<>>
    /\ isLoading
    /\ success
    /\ email # <<>>

(* C14 as claimed: the wizard starts in step 1 with empty email and        *)
(* message, success and loading false, and every later change of step,     *)
(* email, message, success or loading is made by a submit handler.         *)
OnlySubmitHandlersMutate ==
    /\ [](last.op = "mount" =>
             /\ step = 1
             /\ email = <<>>
             /\ message = ""
             /\ ~success
             /\ ~isLoading)
    /\ [][WizardState' # WizardState => last'.op \in {"submit", "response"}]_vars

(* C14 as amended: as claimed, except that Back too changes the state: it  *)
(* changes step, and nothing else.                                         *)
OnlySubmitHandlersAndBackMutate ==
    /\ [](last.op = "mount" =>
             /\ step = 1
             /\ email = <<>>
             /\ message = ""
             /\ ~success
             /\ ~isLoading)
    /\ [][WizardState' # WizardState =>
             \/ last'.op \in {"submit", "response"}
             \/ /\ last'.op = "back"
                /\ UNCHANGED <<email, message, success, isLoading>>]_vars

(* C14 witness: Back changed step on an idle wizard *)
BackOnIdleWizard ==
    /\ last.op = "back"
    /\ step = 1
    /\ calls = <<>>
    /\ ~isLoading

(* C17: a reset-password request carries the stored email; that email is   *)
(* the one of the latest verify-otp answered {success: true}; a verify-otp *)
(* request carries the stored email, which only a forgot-password answered *)
(* {success: true} for it stores; step 3 is held with a verified email.    *)
ResetOnlyForVerifiedEmail ==
    /\ [](/\ \A i \in 1..Len(calls) :
                /\ calls[i].url = ResetPasswordUrl =>
                       /\ calls[i].body.email = email
                       /\ calls[i].body.email = verified
                       /\ verified # <<>>
                /\ calls[i].url = VerifyOtpUrl =>
                       /\ calls[i].body.email = email
                       /\ email # <<>>
          /\ step = 3 => (verified = email /\ email # <<>>))
    /\ [][/\ email' # email =>
                 /\ AnsweredSuccess(ForgotPasswordUrl)
                 /\ email' = last'.call.body.email
          /\ verified' # verified =>
                 /\ AnsweredSuccess(VerifyOtpUrl)
                 /\ verified' = last'.call.body.email]_vars

(* C17 witness: a reset-password request is in flight for the verified email *)
ResetSentForVerifiedEmail ==
    /\ Len(calls) = 1
    /\ calls[1].url = ResetPasswordUrl
    /\ calls[1].body.email = verified
    /\ step = 3

-----------------------------------------------------------------------------
(* Reading a step of a ClientForm behaviour *)

ClientSubmitted == clast'.op = "submit"
ClientIssued == Len(clientCalls') > Len(clientCalls)
ClientAnswered == Len(clientCalls') < Len(clientCalls)
NewClientCall == clientCalls'[Len(clientCalls')]

(* A value of each field that satisfies the rules the spec states *)
SatisfiesClientRules(values) ==
    /\ Len(values.title) > 0
    /\ Len(values.title) <= 100
    /\ IsUrl(values.website)
    /\ Len(values.website) <= 255
    /\ Len(values.content) >= 10
    /\ Len(values.content) <= 1000
    /\ \/ values.image = Null
       \/ /\ values.image.type \in {"image/jpeg", "image/png", "image/gif", "image/webp"}
          /\ values.image.size <= 2 * 1024 * 1024

FormFields == <<title, website, content, imageFile, imagePreview>>

(* C15: a submit of valid values in mode "add", or in mode "edit" with     *)
(* initialData, issues one request: POST /client/create-client, or PUT     *)
(* /client/update-client/{initialData.id}; its body has name, website and  *)
(* description from title, website and content, and a logo part exactly if *)
(* an image file is selected, then that file.                              *)
SubmitIssuesOneRequest ==
    [][(/\ ClientSubmitted
        /\ SatisfiesClientRules(FormValues)
        /\ \/ props.mode = "add"
           \/ props.mode = "edit" /\ props.initialData # Null) =>
           /\ Len(clientCalls') = Len(clientCalls) + 1
           /\ SubSeq(clientCalls', 1, Len(clientCalls)) = clientCalls
           /\ props.mode = "add" =>
                  /\ NewClientCall.method = "POST"
                  /\ NewClientCall.url = "/client/create-client"
           /\ props.mode = "edit" =>
                  /\ NewClientCall.method = "PUT"
                  /\ NewClientCall.url = "/client/update-client/"
                  /\ NewClientCall.id = props.initialData.id
           /\ NewClientCall.formData.name = title
           /\ NewClientCall.formData.website = website
           /\ NewClientCall.formData.description = content
           /\ ("logo" \in DOMAIN NewClientCall.formData) <=> (imageFile # Null)
           /\ imageFile # Null => NewClientCall.formData.logo = imageFile]_vars

(* C15 witness: an update with a logo part is in flight *)
UpdateWithLogoInFlight ==
    /\ clast.op = "submit"
    /\ Len(clientCalls) = 1
    /\ clientCalls[1].method = "PUT"
    /\ "logo" \in DOMAIN clientCalls[1].formData

(* C16: a request is issued only by a submit whose values satisfy the      *)
(* rules; a submit whose values do not marks the four fields touched, sets *)
(* an error for each field that fails and for no other, and leaves the     *)
(* values, the drawer and the requests alone.                              *)
InvalidSubmitIsBlocked ==
    [][/\ ClientIssued => ClientSubmitted /\ SatisfiesClientRules(FormValues)
       /\ (ClientSubmitted /\ ~SatisfiesClientRules(FormValues)) =>
              /\ \A f \in Fields : touched'[f]
              /\ \A f \in Fields :
                     (errors'[f] # "") <=> (fieldErrors(f, FormValues[f]) # <<>>)
              /\ UNCHANGED <<FormFields, isDrawerOpen, clientCalls, refreshed>>]_vars

(* C16 witness: a submit with a description that is too short was blocked *)
ShortContentBlocked ==
    /\ clast.op = "submit"
    /\ ~clast.sent
    /\ Len(clast.values.content) < 10
    /\ Len(clast.values.title) > 0
    /\ errors["content"] # ""
    /\ errors["title"] = ""
    /\ \A f \in Fields : touched[f]
    /\ content = clast.values.content
    /\ isDrawerOpen
    /\ clientCalls = <<>>

(* C18: when a request resolves, refreshClientList is called if provided,  *)
(* the fields, errors and touched are reset and the drawer is closed; when *)
(* it fails, none of them changes.                                         *)
SaveOutcome ==
    [][ClientAnswered =>
          IF clast'.ok
          THEN /\ refreshed' = IF props.refreshClientList THEN refreshed + 1 ELSE refreshed
               /\ title' = <<>> /\ website' = <<>> /\ content' = <<>>
               /\ imageFile' = Null
               /\ errors' = NoErrors
               /\ touched' = NoneTouched
               /\ ~isDrawerOpen'
          ELSE UNCHANGED <<FormFields, errors, touched, isDrawerOpen, refreshed>>]_vars

(* C18 witness: the request failed, the values are still there and the     *)
(* drawer is open                                                          *)
FailedSaveKeepsForm ==
    /\ clast.op = "response"
    /\ ~clast.ok
    /\ title = clast.call.formData.name
    /\ website = clast.call.formData.website
    /\ content = clast.call.formData.description
    /\ imageFile # Null
    /\ isDrawerOpen

(* C19: the form is reset and the drawer closed only by the step that      *)
(* settles a request successfully.                                         *)
ResetOnlyAfterSave ==
    [][(isDrawerOpen /\ ~isDrawerOpen') => (ClientAnswered /\ clast'.ok)]_vars

(* C20: after a change of a touched text field, its error is empty exactly *)
(* if the new value passes the field's tests.                              *)
ErrorReflectsNewValue ==
    [][(clast'.op = "change" /\ touched[clast'.field]) =>
          ((errors'[clast'.field] = "")
               <=> (fieldErrors(clast'.field, clast'.value) = <<>>))]_vars

-----------------------------------------------------------------------------
(* C21: at most one create or update request of the form is in flight.     *)
OneClientRequestInFlight == Len(clientCalls) <= 1

-----------------------------------------------------------------------------
(* C22: while a request is in flight (isLoading is true) the message is    *)
(* empty; the message changes only when a submit handler clears it as it   *)
(* issues its request, or when that request settles, to the message of the *)
(* response or to the retry message of the handler.                        *)
MessageEmptyWhileLoading ==
    /\ []((isLoading \/ calls # <<>>) => message = "")
    /\ [][message' # message =>
             \/ Issued /\ last'.op = "submit" /\ message' = ""
             \/ /\ Answered
                /\ message' = IF last'.resp.kind = "resolved"
                              THEN last'.resp.message
                              ELSE RetryMessage(last'.call.url)]_vars

(* C22 witness: a message was shown, the next submit cleared it and its    *)
(* request is in flight                                                    *)
MessageClearedByOtpSubmit ==
    /\ isLoading
    /\ Len(calls) = 1
    /\ calls[1].url = VerifyOtpUrl
    /\ last.op = "submit"
    /\ step = 2
    /\ message = ""

====
